---- MODULE Spec2Model ----
(***************************************************************************)
(* Model of the Tableau integration scripts of the eye-tracking pipeline:  *)
(* build_hyper_extracts.py (schema resolution, type inference, row         *)
(* conversion, batched insertion, the main loop) and                       *)
(* validate_csv_schemas.py (schema loading and lookup).                    *)
(*                                                                         *)
(* Python strings are sequences of one-character strings, so that          *)
(* int(), float(), str.lower(), strptime() and fnmatch() are computed      *)
(* character by character as the interpreter computes them.                *)
(***************************************************************************)
EXTENDS Integers, Sequences, FiniteSets, TLC

(***************************************************************************)
(* Characters and str methods                                              *)
(***************************************************************************)
Digits == <<"0", "1", "2", "3", "4", "5", "6", "7", "8", "9">>

UpperAlpha == <<"A", "B", "C", "D", "E", "F", "G", "H", "I", "J", "K", "L", "M",
                "N", "O", "P", "Q", "R", "S", "T", "U", "V", "W", "X", "Y", "Z">>

LowerAlpha == <<"a", "b", "c", "d", "e", "f", "g", "h", "i", "j", "k", "l", "m",
                "n", "o", "p", "q", "r", "s", "t", "u", "v", "w", "x", "y", "z">>

D09 == {Digits[i] : i \in 1..Len(Digits)}

D19 == D09 \ {"0"}

IsDigit(c) == c \in D09

DigitVal(c) == CHOOSE i \in 0..9 : Digits[i + 1] = c

IsSpace(c) == c \in {" ", "\t", "\n", "\r"}

LowerChar(c) ==
    IF \E i \in 1..Len(UpperAlpha) : UpperAlpha[i] = c
    THEN LowerAlpha[CHOOSE i \in 1..Len(UpperAlpha) : UpperAlpha[i] = c]
    ELSE c

\* str.lower()
Lower(s) == [i \in 1..Len(s) |-> LowerChar(s[i])]

RECURSIVE LStrip(_)
LStrip(s) ==
    IF s = <<>> THEN s
    ELSE IF IsSpace(Head(s)) THEN LStrip(Tail(s)) ELSE s

RECURSIVE RStrip(_)
RStrip(s) ==
    IF s = <<>> THEN s
    ELSE IF IsSpace(s[Len(s)]) THEN RStrip(SubSeq(s, 1, Len(s) - 1)) ELSE s

\* str.strip(), which int() and float() apply to their argument
Strip(s) == RStrip(LStrip(s))

\* Position of the first character of s that is in cs, or 0
FirstIn(s, cs) ==
    IF \E i \in 1..Len(s) : s[i] \in cs
    THEN CHOOSE i \in 1..Len(s) : s[i] \in cs /\ \A j \in 1..(i - 1) : s[j] \notin cs
    ELSE 0

(***************************************************************************)
(* Numeric literals: int(s) and float(s)                                   *)
(***************************************************************************)
\* A run of decimal digits with single underscores between digits
DigitGroup(g) ==
    /\ Len(g) > 0
    /\ IsDigit(g[1])
    /\ IsDigit(g[Len(g)])
    /\ \A i \in 1..Len(g) : IsDigit(g[i]) \/ g[i] = "_"
    /\ \A i \in 1..(Len(g) - 1) : ~(g[i] = "_" /\ g[i + 1] = "_")

RECURSIVE DigitsValue(_)
DigitsValue(g) ==
    IF g = <<>> THEN 0
    ELSE IF IsDigit(g[Len(g)])
         THEN 10 * DigitsValue(SubSeq(g, 1, Len(g) - 1)) + DigitVal(g[Len(g)])
         ELSE DigitsValue(SubSeq(g, 1, Len(g) - 1))

NumDigitChars(g) == Len(SelectSeq(g, IsDigit))

HasSign(t) == Len(t) > 0 /\ t[1] \in {"+", "-"}

Unsigned(t) == IF HasSign(t) THEN Tail(t) ELSE t

Signed(t, n) == IF HasSign(t) /\ t[1] = "-" THEN 0 - n ELSE n

ParseFail == [ok |-> FALSE]

\* int(s): the value, or the ValueError
PyInt(s) ==
    LET t == Strip(s)
        body == Unsigned(t)
    IN  IF DigitGroup(body)
        THEN [ok |-> TRUE, val |-> Signed(t, DigitsValue(body))]
        ELSE ParseFail

RECURSIVE Pow10(_)
Pow10(n) == IF n <= 0 THEN 1 ELSE 10 * Pow10(n - 1)

RECURSIVE NumDigits(_)
NumDigits(n) == IF n < 10 THEN 1 ELSE 1 + NumDigits(n \div 10)

\* A finite float is the decimal m * 10^e with m not a multiple of 10
RECURSIVE Normalise(_, _)
Normalise(m, e) ==
    IF m = 0 THEN [m |-> 0, e |-> 0]
    ELSE IF m % 10 = 0 THEN Normalise(m \div 10, e + 1)
    ELSE [m |-> m, e |-> e]

RECURSIVE Lead2(_)
Lead2(m) == IF m < 100 THEN (IF m < 10 THEN 10 * m ELSE m) ELSE Lead2(m \div 10)

FloatInf(neg) == [ok |-> TRUE, kind |-> "inf", neg |-> neg, m |-> 0, e |-> 0]

FloatNan == [ok |-> TRUE, kind |-> "nan", neg |-> FALSE, m |-> 0, e |-> 0]

\* The double nearest to m * 10^e: overflow rounds to inf, underflow to 0
FloatFin(neg, m, e) ==
    LET n == Normalise(m, e)
        decade == NumDigits(n.m) + n.e
    IN  IF n.m = 0 THEN [ok |-> TRUE, kind |-> "fin", neg |-> FALSE, m |-> 0, e |-> 0]
        ELSE IF decade > 309 \/ (decade = 309 /\ Lead2(n.m) >= 18) THEN FloatInf(neg)
        ELSE IF decade < 0 - 323
             THEN [ok |-> TRUE, kind |-> "fin", neg |-> FALSE, m |-> 0, e |-> 0]
        ELSE [ok |-> TRUE, kind |-> "fin", neg |-> neg, m |-> n.m, e |-> n.e]

\* float(s): the value, or the ValueError
PyFloat(s) ==
    LET t == Strip(s)
        neg == HasSign(t) /\ t[1] = "-"
        body == Unsigned(t)
        low == Lower(body)
        epos == FirstIn(body, {"e", "E"})
        mant == IF epos = 0 THEN body ELSE SubSeq(body, 1, epos - 1)
        expo == IF epos = 0 THEN <<>> ELSE SubSeq(body, epos + 1, Len(body))
        dpos == FirstIn(mant, {"."})
        ip == IF dpos = 0 THEN mant ELSE SubSeq(mant, 1, dpos - 1)
        fp == IF dpos = 0 THEN <<>> ELSE SubSeq(mant, dpos + 1, Len(mant))
        mantOk == /\ ip # <<>> \/ fp # <<>>
                  /\ ip = <<>> \/ DigitGroup(ip)
                  /\ fp = <<>> \/ DigitGroup(fp)
        expOk == epos = 0 \/ DigitGroup(Unsigned(expo))
        ev == IF epos = 0 THEN 0 ELSE Signed(expo, DigitsValue(Unsigned(expo)))
    IN  IF low \in {<<"i", "n", "f">>, <<"i", "n", "f", "i", "n", "i", "t", "y">>}
        THEN FloatInf(neg)
        ELSE IF low = <<"n", "a", "n">> THEN FloatNan
        ELSE IF mantOk /\ expOk
             THEN FloatFin(neg, DigitsValue(ip \o fp), ev - NumDigitChars(fp))
             ELSE ParseFail

\* int(x) of a float x: truncation toward zero; OverflowError on inf,
\* ValueError on nan
IntOfFloat(x) ==
    IF ~x.ok \/ x.kind # "fin" THEN ParseFail
    ELSE LET mag == IF x.e >= 0 THEN x.m * Pow10(x.e)
                    ELSE IF 0 - x.e > 9 THEN 0
                    ELSE x.m \div Pow10(0 - x.e)
         IN  [ok |-> TRUE, val |-> IF x.neg THEN 0 - mag ELSE mag]

(***************************************************************************)
(* Timestamps: datetime.strptime(s, fmt)                                   *)
(* A format is its sequence of directives and literal characters.  Each    *)
(* directive is the ordered alternation of the regular expression that     *)
(* strptime compiles for it; a blank of the format matches \s+; the        *)
(* expression is matched ignoring case from the start of the string, and   *)
(* the match must end where the string ends.                               *)
(***************************************************************************)
FmtSpace == <<"%Y", "-", "%m", "-", "%d", " ", "%H", ":", "%M", ":", "%S">>

FmtT == <<"%Y", "-", "%m", "-", "%d", "T", "%H", ":", "%M", ":", "%S">>

FmtDate == <<"%Y", "-", "%m", "-", "%d">>

\* The formats in the order the code tries them
TS_FORMATS == <<FmtSpace, FmtT, FmtDate>>

Alternatives(tok) ==
    CASE tok = "%Y" -> << <<D09, D09, D09, D09>> >>
      [] tok = "%m" -> << <<{"1"}, {"0", "1", "2"}>>, <<{"0"}, D19>>, <<D19>> >>
      [] tok = "%d" -> << <<{"3"}, {"0", "1"}>>, <<{"1", "2"}, D09>>, <<{"0"}, D19>>,
                          <<D19>>, <<{" "}, D19>> >>
      [] tok = "%H" -> << <<{"2"}, {"0", "1", "2", "3"}>>, <<{"0", "1"}, D09>>, <<D09>> >>
      [] tok = "%M" -> << <<{"0", "1", "2", "3", "4", "5"}, D09>>, <<D09>> >>
      [] tok = "%S" -> << <<{"6"}, {"0", "1"}>>, <<{"0", "1", "2", "3", "4", "5"}, D09>>,
                          <<D09>> >>
      [] tok = "T" -> << <<{"T", "t"}>> >>
      [] OTHER -> << <<{tok}>> >>

MatchPat(s, pos, pat) ==
    \A i \in 1..Len(pat) : pos + i - 1 <= Len(s) /\ s[pos + i - 1] \in pat[i]

\* Length of the run of whitespace of s that starts at pos
SpaceRun(s, pos) ==
    IF pos > Len(s) \/ ~IsSpace(s[pos]) THEN 0
    ELSE LET stop == {j \in pos..Len(s) : ~IsSpace(s[j])}
         IN  IF stop = {} THEN Len(s) - pos + 1
             ELSE (CHOOSE j \in stop : \A k \in stop : j <= k) - pos

NoMatch == [ok |-> FALSE, end |-> 0, caps |-> <<>>]

RECURSIVE ReMatch(_, _, _, _)
RECURSIVE TryAlts(_, _, _, _, _)
RECURSIVE TrySpaces(_, _, _, _, _)

\* The first match, in backtracking order, of fmt[k..] at s[pos..]: where it
\* ends and the text each token captured
ReMatch(s, pos, fmt, k) ==
    IF k > Len(fmt) THEN [ok |-> TRUE, end |-> pos, caps |-> <<>>]
    ELSE IF fmt[k] = " " THEN TrySpaces(s, pos, fmt, k, SpaceRun(s, pos))
    ELSE TryAlts(s, pos, fmt, k, 1)

TryAlts(s, pos, fmt, k, i) ==
    LET alts == Alternatives(fmt[k])
    IN  IF i > Len(alts) THEN NoMatch
        ELSE IF MatchPat(s, pos, alts[i])
             THEN LET n == Len(alts[i])
                      r == ReMatch(s, pos + n, fmt, k + 1)
                  IN  IF r.ok
                      THEN [ok |-> TRUE, end |-> r.end,
                            caps |-> <<SubSeq(s, pos, pos + n - 1)>> \o r.caps]
                      ELSE TryAlts(s, pos, fmt, k, i + 1)
             ELSE TryAlts(s, pos, fmt, k, i + 1)

TrySpaces(s, pos, fmt, k, n) ==
    IF n < 1 THEN NoMatch
    ELSE LET r == ReMatch(s, pos + n, fmt, k + 1)
         IN  IF r.ok
             THEN [ok |-> TRUE, end |-> r.end,
                   caps |-> <<SubSeq(s, pos, pos + n - 1)>> \o r.caps]
             ELSE TrySpaces(s, pos, fmt, k, n - 1)

\* The number a directive captured, 0 when the format has no such directive
Field(fmt, caps, tok) ==
    IF \E k \in 1..Len(fmt) : fmt[k] = tok
    THEN DigitsValue(caps[CHOOSE k \in 1..Len(fmt) : fmt[k] = tok])
    ELSE 0

IsLeap(y) == (y % 4 = 0 /\ y % 100 # 0) \/ y % 400 = 0

DaysInMonth(y, m) ==
    IF m = 2 THEN (IF IsLeap(y) THEN 29 ELSE 28)
    ELSE IF m \in {4, 6, 9, 11} THEN 30 ELSE 31

\* datetime.strptime(s, fmt): the datetime, or the ValueError (no match,
\* unconverted data, or a field the datetime constructor rejects)
Strptime(s, fmt) ==
    LET r == ReMatch(s, 1, fmt, 1)
    IN  IF ~r.ok \/ r.end # Len(s) + 1 THEN ParseFail
        ELSE LET Y == Field(fmt, r.caps, "%Y")
                 mo == Field(fmt, r.caps, "%m")
                 d == Field(fmt, r.caps, "%d")
                 H == Field(fmt, r.caps, "%H")
                 M == Field(fmt, r.caps, "%M")
                 S == Field(fmt, r.caps, "%S")
             IN  IF Y < 1 \/ d > DaysInMonth(Y, mo) \/ S > 59 THEN ParseFail
                 ELSE [ok |-> TRUE, Y |-> Y, mo |-> mo, d |-> d,
                       H |-> H, M |-> M, S |-> S]

\* The loop over the formats: the first format that parses, or no result
RECURSIVE ParseTs(_, _)
ParseTs(s, i) ==
    IF i > Len(TS_FORMATS) THEN ParseFail
    ELSE IF Strptime(s, TS_FORMATS[i]).ok THEN Strptime(s, TS_FORMATS[i])
    ELSE ParseTs(s, i + 1)

(***************************************************************************)
(* Column types, header-name hints and fixed type names                    *)
(***************************************************************************)
\* SqlType.int(), SqlType.double(), SqlType.timestamp(), SqlType.text()
SqlTypes == {"int", "double", "timestamp", "text"}

DATE_FIELDS == {<<"t", "i", "m", "e", "s", "t", "a", "m", "p">>, <<"s", "t", "a", "r", "t", "_", "t", "i", "m", "e">>, <<"e", "n", "d", "_", "t", "i", "m", "e">>, <<"d", "a", "t", "e">>}

INT_FIELDS == {<<"p", "a", "r", "t", "i", "c", "i", "p", "a", "n", "t", "_", "i", "d">>, <<"t", "r", "i", "a", "l">>, <<"c", "l", "u", "s", "t", "e", "r", "_", "i", "d">>, <<"a", "o", "i", "_", "i", "d">>}

FLOAT_FIELDS == {<<"x">>, <<"y">>, <<"d", "u", "r", "a", "t", "i", "o", "n">>, <<"p", "r", "o", "b", "a", "b", "i", "l", "i", "t", "y">>, <<"s", "c", "o", "r", "e">>, <<"v", "a", "l", "u", "e">>}

\* The number of leading non-empty samples infer_type inspects
SAMPLE_SLICE == 10

\* The number of leading data rows build_table_def samples
SAMPLE_ROWS == 50

\* The buffer length at which insert_csv flushes
BATCH_SIZE == 5000

\* The value of a cell a short row leaves absent (DictReader's restval)
None == <<"<None>">>

\* Truthiness of a cell: neither None nor the empty string
Truthy(v) == v # None /\ v # <<>>

Min(a, b) == IF a < b THEN a ELSE b

str_to_sqltype(t) ==
    LET l == Lower(t)
    IN  IF l = <<"i", "n", "t">> THEN "int"
        ELSE IF l = <<"d", "o", "u", "b", "l", "e">> \/ l = <<"r", "e", "a", "l">> \/ l = <<"f", "l", "o", "a", "t">> THEN "double"
        ELSE IF l = <<"t", "i", "m", "e", "s", "t", "a", "m", "p">> \/ l = <<"d", "a", "t", "e", "t", "i", "m", "e">> THEN "timestamp"
        ELSE "text"

\* infer_type's local predicates
is_int(s) == PyInt(s).ok

is_float(s) == PyFloat(s).ok

is_ts(s) == ParseTs(s, 1).ok

\* The samples the fallback looks at: non_empty[:10]
Inspected(sample_values) ==
    LET non_empty == SelectSeq(sample_values, Truthy)
    IN  SubSeq(non_empty, 1, Min(Len(non_empty), SAMPLE_SLICE))

\* infer_type asking every inspected sample, not any, to be a timestamp
infer_typeAllTs(field, sample_values) ==
    LET f == Lower(field)
        non_empty == SelectSeq(sample_values, Truthy)
        seen == Inspected(sample_values)
    IN  IF f \in INT_FIELDS THEN "int"
        ELSE IF f \in FLOAT_FIELDS THEN "double"
        ELSE IF f \in DATE_FIELDS THEN "timestamp"
        ELSE IF non_empty # <<>> /\ (\A i \in 1..Len(seen) : is_int(seen[i])) THEN "int"
        ELSE IF non_empty # <<>> /\ (\A i \in 1..Len(seen) : is_float(seen[i])) THEN "double"
        ELSE IF non_empty # <<>> /\ (\A i \in 1..Len(seen) : is_ts(seen[i])) THEN "timestamp"
        ELSE "text"

\* infer_type consulting the samples before the header-name hints
infer_typeSamplesFirst(field, sample_values) ==
    LET f == Lower(field)
        non_empty == SelectSeq(sample_values, Truthy)
        seen == Inspected(sample_values)
    IN  IF non_empty # <<>> /\ (\A i \in 1..Len(seen) : is_int(seen[i])) THEN "int"
        ELSE IF non_empty # <<>> /\ (\A i \in 1..Len(seen) : is_float(seen[i])) THEN "double"
        ELSE IF non_empty # <<>> /\ (\E i \in 1..Len(seen) : is_ts(seen[i])) THEN "timestamp"
        ELSE IF f \in INT_FIELDS THEN "int"
        ELSE IF f \in FLOAT_FIELDS THEN "double"
        ELSE IF f \in DATE_FIELDS THEN "timestamp"
        ELSE "text"

infer_type(field, sample_values) ==
    LET f == Lower(field)
        non_empty == SelectSeq(sample_values, Truthy)
        seen == Inspected(sample_values)
    IN  IF f \in INT_FIELDS THEN "int"
        ELSE IF f \in FLOAT_FIELDS THEN "double"
        ELSE IF f \in DATE_FIELDS THEN "timestamp"
        ELSE IF non_empty # <<>> /\ (\A i \in 1..Len(seen) : is_int(seen[i])) THEN "int"
        ELSE IF non_empty # <<>> /\ (\A i \in 1..Len(seen) : is_float(seen[i])) THEN "double"
        ELSE IF non_empty # <<>> /\ (\E i \in 1..Len(seen) : is_ts(seen[i])) THEN "timestamp"
        ELSE "text"

(***************************************************************************)
(* CSV files as csv.DictReader reads them                                  *)
(* A file is its header and its data rows, the rows run-length encoded:    *)
(* runs[k].row repeated runs[k].n times.  A row is aligned with the header;*)
(* a cell a short row lacks is None.                                       *)
(***************************************************************************)
RECURSIVE RunsLen(_)
RunsLen(runs) == IF runs = <<>> THEN 0 ELSE runs[1].n + RunsLen(Tail(runs))

NRows(file) == RunsLen(file.runs)

RECURSIVE RunsAt(_, _)
RunsAt(runs, i) ==
    IF i <= runs[1].n THEN runs[1].row ELSE RunsAt(Tail(runs), i - runs[1].n)

\* The i-th data row of the file, i in 1..NRows(file)
RowAt(file, i) == RunsAt(file.runs, i)

\* A list that takes a new row at its front
RLAppendFront(rl, x) ==
    IF rl # <<>> /\ rl[1].row = x
    THEN [rl EXCEPT ![1].n = @ + 1]
    ELSE <<[row |-> x, n |-> 1]>> \o rl

\* Lists of rows are kept run-length encoded throughout, in the normal form
\* in which adjacent runs differ and no run is empty: list.append(x)
RLAppend(rl, x) ==
    IF rl # <<>> /\ rl[Len(rl)].row = x
    THEN [rl EXCEPT ![Len(rl)].n = @ + 1]
    ELSE Append(rl, [row |-> x, n |-> 1])

\* The concatenation of two lists
RLConcat(a, b) ==
    IF a = <<>> THEN b
    ELSE IF b = <<>> THEN a
    ELSE IF a[Len(a)].row = b[1].row
         THEN SubSeq(a, 1, Len(a) - 1)
              \o <<[row |-> b[1].row, n |-> a[Len(a)].n + b[1].n]>>
              \o Tail(b)
    ELSE a \o b

\* row.get(name): DictReader keeps the last cell of a repeated header name
RowGet(headers, row, name) ==
    LET at == {i \in 1..Len(headers) : headers[i] = name}
    IN  IF at = {} THEN None
        ELSE row[CHOOSE i \in at : \A j \in at : j <= i]

(***************************************************************************)
(* Optional dictionaries                                                   *)
(* A dict is the sequence of its items in insertion order, keys distinct.  *)
(***************************************************************************)
NoneMap == [some |-> FALSE, map |-> <<>>]

SomeMap(m) == [some |-> TRUE, map |-> m]

HasKey(m, k) == \E i \in 1..Len(m) : m[i].key = k

DictGet(m, k) == m[CHOOSE i \in 1..Len(m) : m[i].key = k].val

(***************************************************************************)
(* build_table_def                                                         *)
(***************************************************************************)
\* samples[h]: the column's cells in the first 50 data rows, in file order
Samples(file, h) ==
    [i \in 1..Min(NRows(file), SAMPLE_ROWS) |-> RowGet(file.headers, RowAt(file, i), h)]

\* ColumnType letting a header-name hint win over the fixed override
ColumnTypeHintsFirst(file, fixed_types, h) ==
    IF Lower(h) \in INT_FIELDS \cup FLOAT_FIELDS \cup DATE_FIELDS
    THEN infer_type(h, Samples(file, h))
    ELSE IF fixed_types.some /\ fixed_types.map # <<>> /\ HasKey(fixed_types.map, h)
    THEN str_to_sqltype(DictGet(fixed_types.map, h))
    ELSE infer_type(h, Samples(file, h))

\* The type of header column h: the fixed override, else inference
ColumnType(file, fixed_types, h) ==
    IF fixed_types.some /\ fixed_types.map # <<>> /\ HasKey(fixed_types.map, h)
    THEN str_to_sqltype(DictGet(fixed_types.map, h))
    ELSE infer_type(h, Samples(file, h))

build_table_def(file, fixed_types) ==
    [i \in 1..Len(file.headers) |->
        [name |-> file.headers[i],
         type |-> ColumnType(file, fixed_types, file.headers[i])]]

(***************************************************************************)
(* Row conversion (the body of insert_csv's loop over the columns)         *)
(***************************************************************************)
Null == [t |-> "null"]

IntV(n) == [t |-> "int", v |-> n]

FloatV(x) == [t |-> "float", kind |-> x.kind, neg |-> x.neg, m |-> x.m, e |-> x.e]

TsV(p) == [t |-> "datetime", Y |-> p.Y, mo |-> p.mo, d |-> p.d,
           H |-> p.H, M |-> p.M, S |-> p.S]

TextV(s) == [t |-> "str", s |-> s]

\* ConvertCell parsing an Integer cell with int(v) instead of int(float(v))
ConvertCellIntOnly(ty, v) ==
    IF v = None \/ v = <<>> THEN Null
    ELSE IF ty = "int"
         THEN (IF PyInt(v).ok THEN IntV(PyInt(v).val) ELSE Null)
    ELSE IF ty = "double"
         THEN (IF PyFloat(v).ok THEN FloatV(PyFloat(v)) ELSE Null)
    ELSE IF ty = "timestamp"
         THEN (IF ParseTs(v, 1).ok THEN TsV(ParseTs(v, 1)) ELSE Null)
    ELSE TextV(v)

\* The value appended for a cell v of a column of type ty; every except
\* clause of the code is bare, so no failure of a parse leaves the branch
ConvertCell(ty, v) ==
    IF v = None \/ v = <<>> THEN Null
    ELSE IF ty = "int"
         THEN (IF IntOfFloat(PyFloat(v)).ok THEN IntV(IntOfFloat(PyFloat(v)).val) ELSE Null)
    ELSE IF ty = "double"
         THEN (IF PyFloat(v).ok THEN FloatV(PyFloat(v)) ELSE Null)
    ELSE IF ty = "timestamp"
         THEN (IF ParseTs(v, 1).ok THEN TsV(ParseTs(v, 1)) ELSE Null)
    ELSE TextV(v)

\* values: one converted cell per column of the table definition
ConvertRow(table_def, headers, row) ==
    [i \in 1..Len(table_def) |->
        ConvertCell(table_def[i].type, RowGet(headers, row, table_def[i].name))]

(***************************************************************************)
(* fnmatch.fnmatch on a POSIX host: *, ?, [seq], [!seq] with ranges; a [   *)
(* that no ] closes is a literal.  Patterns here hold no backslash and no  *)
(* reversed range.                                                         *)
(***************************************************************************)
\* The characters of names and patterns in code-point order
Ascii == <<" ", "!", "#", "$", "%", "&", "(", ")", "*", "+", ",", "-", ".", "/">>
         \o Digits \o <<":", ";", "<", "=", ">", "?", "@">> \o UpperAlpha
         \o <<"[", "]", "^", "_">> \o LowerAlpha \o <<"{", "|", "}", "~">>

Ord(c) == CHOOSE i \in 1..Len(Ascii) : Ascii[i] = c

\* The index of the ] that closes the [ before p[i], or 0
CloseBracket(p, i) ==
    LET j1 == IF i <= Len(p) /\ p[i] = "!" THEN i + 1 ELSE i
        j2 == IF j1 <= Len(p) /\ p[j1] = "]" THEN j1 + 1 ELSE j1
        cl == {j \in j2..Len(p) : p[j] = "]"}
    IN  IF cl = {} THEN 0 ELSE CHOOSE j \in cl : \A k \in cl : j <= k

\* Whether c is in the character set written as stuff (no leading !)
RECURSIVE InSet(_, _)
InSet(c, stuff) ==
    IF stuff = <<>> THEN FALSE
    ELSE IF Len(stuff) >= 3 /\ stuff[2] = "-"
         THEN (Ord(stuff[1]) <= Ord(c) /\ Ord(c) <= Ord(stuff[3]))
              \/ InSet(c, SubSeq(stuff, 4, Len(stuff)))
    ELSE c = stuff[1] \/ InSet(c, Tail(stuff))

InClass(c, stuff) ==
    IF stuff # <<>> /\ stuff[1] = "!" THEN ~InSet(c, Tail(stuff))
    ELSE InSet(c, stuff)

RECURSIVE GlobMatch(_, _, _, _)
GlobMatch(s, i, p, k) ==
    IF k > Len(p) THEN i > Len(s)
    ELSE IF p[k] = "*" THEN \E j \in i..(Len(s) + 1) : GlobMatch(s, j, p, k + 1)
    ELSE IF p[k] = "?" THEN i <= Len(s) /\ GlobMatch(s, i + 1, p, k + 1)
    ELSE IF p[k] = "[" /\ CloseBracket(p, k + 1) # 0
         THEN /\ i <= Len(s)
              /\ InClass(s[i], SubSeq(p, k + 1, CloseBracket(p, k + 1) - 1))
              /\ GlobMatch(s, i + 1, p, CloseBracket(p, k + 1) + 1)
    ELSE i <= Len(s) /\ s[i] = p[k] /\ GlobMatch(s, i + 1, p, k + 1)

fnmatch(file_name, pattern) == GlobMatch(file_name, 1, pattern, 1)

(***************************************************************************)
(* Schema resolution                                                       *)
(* The schema map is a dict of dicts of dicts: directory -> pattern ->     *)
(* column -> type name.  A path is the directory below root, as its        *)
(* components, and the file name.                                          *)
(***************************************************************************)
RECURSIVE JoinParts(_)
JoinParts(parts) ==
    IF parts = <<>> THEN <<>>
    ELSE IF Len(parts) = 1 THEN parts[1]
    ELSE parts[1] \o <<"/">> \o JoinParts(Tail(parts))

\* str(csv_path.parent.relative_to(root)).replace("\\", "/")
RelDir(parts) ==
    LET s == IF parts = <<>> THEN <<".">> ELSE JoinParts(parts)
    IN  [i \in 1..Len(s) |-> IF s[i] = "\\" THEN "/" ELSE s[i]]

\* A loop over the patterns that keeps the last pattern that matches
RECURSIVE LastMatch(_, _, _)
LastMatch(patterns, file_name, i) ==
    LET later == {j \in i..Len(patterns) : fnmatch(file_name, patterns[j].key)}
    IN  IF later = {} THEN NoneMap
        ELSE SomeMap(patterns[CHOOSE j \in later : \A k \in later : k <= j].val)

\* The loop over patterns.items(): the first pattern that matches
RECURSIVE FirstMatch(_, _, _)
FirstMatch(patterns, file_name, i) ==
    IF i > Len(patterns) THEN NoneMap
    ELSE IF fnmatch(file_name, patterns[i].key) THEN SomeMap(patterns[i].val)
    ELSE FirstMatch(patterns, file_name, i + 1)

\* validate_csv_schemas.lookup_schema
lookup_schema(path, schema_map) ==
    IF HasKey(schema_map, RelDir(path.dir))
    THEN FirstMatch(DictGet(schema_map, RelDir(path.dir)), path.name, 1)
    ELSE NoneMap

\* build_hyper_extracts.lookup_fixed_types, which reads the global SCHEMA_MAP
lookup_fixed_types(path, schema_map) ==
    IF HasKey(schema_map, RelDir(path.dir))
    THEN FirstMatch(DictGet(schema_map, RelDir(path.dir)), path.name, 1)
    ELSE NoneMap

(***************************************************************************)
(* Inputs of the model                                                     *)
(***************************************************************************)
\* The most files one run discovers
MaxFiles == 2

\* The most data rows of a file of the batching specification
MaxRows == 12000

ResultsDir == <<<<"c", "l", "u", "s", "t", "e", "r", "-", "a", "n", "a", "l", "y", "s", "i", "s">>, <<"r", "e", "s", "u", "l", "t", "s">>>>

SequenceDir == <<<<"s", "e", "q", "u", "e", "n", "c", "e", "-", "a", "n", "a", "l", "y", "s", "i", "s">>, <<"r", "e", "s", "u", "l", "t", "s">>>>

\* The file of the end-to-end scenario
E2EFile ==
    [dir |-> ResultsDir, name |-> <<"e", "2", "e", ".", "c", "s", "v">>,
     headers |-> <<<<"i", "d">>, <<"s", "c", "o", "r", "e">>, <<"s", "e", "e", "n", "_", "a", "t">>>>,
     runs |-> <<[row |-> <<<<"1">>, <<"0", ".", "5">>, <<"2", "0", "2", "4", "-", "0", "1", "-", "0", "1">>>>, n |-> 1],
                [row |-> <<<<"x">>, <<"b", "a", "d">>, <<"2", "0", "2", "4", "-", "1", "3", "-", "4", "0">>>>, n |-> 1]>>]

\* Raw cells: integers, floats, timestamps, text, malformed and empty ones
CellSeq ==
    <<<<"x">>, <<"5", ".", "0">>, <<>>, <<"-", "3", ".", "7">>, <<"b", "a", "d">>, <<"1", "e", "3">>, <<"n", "a", "n">>, <<" ", "7", " ">>, <<"1", "_", "0", "0", "0">>, <<"i", "n", "f">>,
      <<"0", "x", "1", "0">>, <<"1", "2">>, <<"2", "0", "2", "4", "-", "0", "1", "-", "0", "1">>, <<"2", "0", "2", "4", "-", "1", "3", "-", "4", "0">>, <<"2", "0", "2", "4", "-", "0", "2", "-", "3", "0">>,
      <<"2", "0", "2", "4", "-", "0", "1", "-", "0", "1", " ", "1", "0", ":", "0", "0", ":", "0", "0">>, <<"2", "0", "2", "4", "-", "0", "1", "-", "0", "1", "T", "1", "0", ":", "0", "0", ":", "0", "0">>, <<"2", "0", "2", "4", "-", "1", "-", "5">>, <<"1", "e", "9", "9", "9">>, <<".", "5">>>>

\* Every cell under an Integer, a Double, a Timestamp and an inferred column,
\* then a short row whose last three cells are absent
CellsFile ==
    [dir |-> ResultsDir, name |-> <<"c", "e", "l", "l", "s", ".", "c", "s", "v">>,
     headers |-> <<<<"t", "r", "i", "a", "l">>, <<"x">>, <<"d", "a", "t", "e">>, <<"n", "o", "t", "e">>>>,
     runs |-> [i \in 1..Len(CellSeq) |->
                  [row |-> <<CellSeq[i], CellSeq[i], CellSeq[i], CellSeq[i]>>, n |-> 1]]
              \o <<[row |-> <<<<"4">>, None, None, None>>, n |-> 1]>>]

\* A file with a header and no data row
HeaderOnlyFile ==
    [dir |-> SequenceDir, name |-> <<"e", "m", "p", "t", "y", ".", "c", "s", "v">>,
     headers |-> <<<<"T", "r", "i", "a", "l">>, <<"l", "a", "b", "e", "l">>>>, runs |-> <<>>]

\* A file whose columns repeat one cell
RepeatFile ==
    [dir |-> SequenceDir, name |-> <<"s", "e", "q", "_", "1", ".", "c", "s", "v">>,
     headers |-> <<<<"c", "o", "u", "n", "t">>, <<"l", "a", "b", "e", "l">>>>,
     runs |-> <<[row |-> <<<<"5", ".", "0">>, <<"a">>>>, n |-> 3]>>]

SmallFiles == {E2EFile, CellsFile, HeaderOnlyFile, RepeatFile}

\* A file of n rows: a first row, a last row that does not parse as a
\* number, and equal rows in between
BigFile(n) ==
    [dir |-> ResultsDir, name |-> <<"b", "i", "g", ".", "c", "s", "v">>,
     headers |-> <<<<"t", "r", "i", "a", "l">>, <<"l", "a", "b", "e", "l">>>>,
     runs |-> (IF n >= 1 THEN <<[row |-> <<<<"1">>, <<"a">>>>, n |-> 1]>> ELSE <<>>)
              \o (IF n >= 3 THEN <<[row |-> <<<<"7">>, <<"a">>>>, n |-> n - 2]>> ELSE <<>>)
              \o (IF n >= 2 THEN <<[row |-> <<<<"x">>, <<"b">>>>, n |-> 1]>> ELSE <<>>)]

\* Row counts around the batch boundaries
BigSizes ==
    {0, 1, BATCH_SIZE - 1, BATCH_SIZE, BATCH_SIZE + 1, 2 * BATCH_SIZE, MaxRows}

\* A schema_config.json that parses
SchemaMapA ==
    << [key |-> <<"c", "l", "u", "s", "t", "e", "r", "-", "a", "n", "a", "l", "y", "s", "i", "s", "/", "r", "e", "s", "u", "l", "t", "s">>,
        val |-> << [key |-> <<"e", "2", "e", "*", ".", "c", "s", "v">>,
                    val |-> << [key |-> <<"i", "d">>, val |-> <<"i", "n", "t">>],
                               [key |-> <<"s", "c", "o", "r", "e">>, val |-> <<"t", "e", "x", "t">>] >>],
                   [key |-> <<"*", ".", "c", "s", "v">>,
                    val |-> << [key |-> <<"t", "r", "i", "a", "l">>, val |-> <<"D", "o", "u", "b", "l", "e">>],
                               [key |-> <<"n", "o", "t", "e">>, val |-> <<"d", "a", "t", "e", "t", "i", "m", "e">>],
                               [key |-> <<"m", "i", "s", "s", "i", "n", "g", "_", "c", "o", "l">>, val |-> <<"i", "n", "t">>] >>] >>],
       [key |-> <<"s", "e", "q", "u", "e", "n", "c", "e", "-", "a", "n", "a", "l", "y", "s", "i", "s", "/", "r", "e", "s", "u", "l", "t", "s">>,
        val |-> << [key |-> <<"s", "e", "q", "_", "?", ".", "c", "s", "v">>,
                    val |-> << [key |-> <<"c", "o", "u", "n", "t">>, val |-> <<"r", "e", "a", "l">>],
                               [key |-> <<"l", "a", "b", "e", "l">>, val |-> <<"s", "t", "r", "i", "n", "g">>] >>] >>] >>

SchemaMapB ==
    << [key |-> <<"c", "l", "u", "s", "t", "e", "r", "-", "a", "n", "a", "l", "y", "s", "i", "s", "/", "r", "e", "s", "u", "l", "t", "s">>,
        val |-> << [key |-> <<"[", "a", "-", "d", "]", "*", ".", "c", "s", "v">>,
                    val |-> << [key |-> <<"t", "r", "i", "a", "l">>, val |-> <<"t", "i", "m", "e", "s", "t", "a", "m", "p">>],
                               [key |-> <<"x">>, val |-> <<"I", "N", "T">>],
                               [key |-> <<"d", "a", "t", "e">>, val |-> <<"f", "l", "o", "a", "t">>],
                               [key |-> <<"n", "o", "t", "e">>, val |-> <<"i", "n", "t">>] >>] >>] >>

\* schemas/schema_config.json: absent, not JSON, or a schema map
ConfigFiles ==
    {[state |-> "missing", content |-> <<>>],
     [state |-> "unparsable", content |-> <<>>],
     [state |-> "ok", content |-> SchemaMapA],
     [state |-> "ok", content |-> SchemaMapB]}

\* What find_csvs may return: up to MaxFiles files in discovery order
RunLists == UNION {[1..n -> SmallFiles] : n \in 0..MaxFiles}

(***************************************************************************)
(* State                                                                   *)
(***************************************************************************)
VARIABLES
    configFile,   \* schemas/schema_config.json on disk
    csvs,         \* the files find_csvs returned, in order
    pc,           \* where the extract builder is
    SCHEMA_MAP,   \* the builder's global
    idx,          \* index in csvs of the file of the current loop iteration
    started,      \* the indices for which convert_csv_to_hyper was called
    fixed_types,  \* convert_csv_to_hyper's local
    table_def,    \* convert_csv_to_hyper's local
    table,        \* the table of the .hyper file the connection has open, its rows
                  \* run-length encoded
    rows,         \* insert_csv's buffer, run-length encoded
    readPos,      \* the number of data rows insert_csv's reader has yielded
    flushes,      \* each Inserter.execute() of this insert_csv: size, outcome
    error         \* the exception that left main, if any

bvars == <<configFile, csvs, pc, SCHEMA_MAP, idx, started, fixed_types, table_def,
           table, rows, readPos, flushes, error>>

\* The validator's state
VARIABLES
    vpc,           \* where the validator is
    v_schema_map,  \* main's local schema_map
    v_idx,         \* the number of files main's loop has handled
    v_results,     \* per validated file: its index and validate_csv's errors
    v_error        \* the exception that left main, if any

vvars == <<vpc, v_schema_map, v_idx, v_results, v_error>>

\* A call of a pure function
VARIABLES
    call,   \* the function called and its arguments
    ret     \* its result, once it has returned

cvars == <<call, ret>>

\* The archive packager's state
VARIABLES
    p_args,   \* the parsed command line: the names of --tds and of --hyper
    fs,       \* the file system: whether --tds, --hyper and the directory of
              \* --out exist, and the file at --out
    ppc,      \* where the packager is
    p_error   \* the exception that left main, if any

pvars == <<p_args, fs, ppc, p_error>>

vars == <<bvars, vvars, cvars, pvars>>

NoTable == [created |-> FALSE, rows |-> <<>>]

InitBuilder ==
    /\ pc = "start"
    /\ SCHEMA_MAP = <<>>
    /\ idx = 0
    /\ started = <<>>
    /\ fixed_types = NoneMap
    /\ table_def = <<>>
    /\ table = NoTable
    /\ rows = <<>>
    /\ readPos = 0
    /\ flushes = <<>>
    /\ error = "none"

(***************************************************************************)
(* build_hyper_extracts.py                                                 *)
(***************************************************************************)
\* load_schema_map: the parsed file, or {} when it is absent or does not parse
LoadedSchemaMap(cf) == IF cf.state = "ok" THEN cf.content ELSE <<>>

\* main, up to the loop over the files
LoadSchemaMap ==
    /\ pc = "start"
    /\ SCHEMA_MAP' = LoadedSchemaMap(configFile)
    /\ pc' = "loop"
    /\ UNCHANGED <<configFile, csvs, idx, started, fixed_types, table_def, table,
                   rows, readPos, flushes, error,
                   vvars, cvars, pvars>>

\* The next iteration of main's loop: convert_csv_to_hyper up to the call of
\* insert_csv, with a fresh connection (CREATE_AND_REPLACE) and a fresh buffer
StartFile ==
    /\ pc = "loop"
    /\ idx < Len(csvs)
    /\ idx' = idx + 1
    /\ started' = Append(started, idx + 1)
    /\ fixed_types' = lookup_fixed_types(csvs[idx + 1], SCHEMA_MAP)
    /\ table_def' = build_table_def(csvs[idx + 1], fixed_types')
    /\ table' = NoTable
    /\ rows' = <<>>
    /\ readPos' = 0
    /\ flushes' = <<>>
    /\ pc' = "create_table"
    /\ UNCHANGED <<configFile, csvs, SCHEMA_MAP, error,
                   vvars, cvars, pvars>>

\* connection.catalog.create_table(table_def); its exception is caught nowhere
CreateTable ==
    /\ pc = "create_table"
    /\ \E ok \in BOOLEAN :
        IF ok
        THEN /\ table' = [created |-> TRUE, rows |-> <<>>]
             /\ pc' = "rows"
             /\ error' = error
        ELSE /\ table' = table
             /\ pc' = "raised"
             /\ error' = "create_table"
    /\ UNCHANGED <<configFile, csvs, SCHEMA_MAP, idx, started, fixed_types, table_def,
                   rows, readPos, flushes,
                   vvars, cvars, pvars>>

\* A buffer that flushes one row late
BufferFullLate(buf) == RunsLen(buf) > BATCH_SIZE

\* len(rows) >= 5000
BufferFull(buf) == RunsLen(buf) >= BATCH_SIZE

\* One iteration of insert_csv's loop over the reader: convert the row,
\* append it, and flush the buffer when it holds BATCH_SIZE rows
HandleRow ==
    /\ pc = "rows"
    /\ readPos < NRows(csvs[idx])
    /\ LET values == ConvertRow(table_def, csvs[idx].headers, RowAt(csvs[idx], readPos + 1))
           buf == RLAppend(rows, values)
       IN  /\ readPos' = readPos + 1
           /\ IF BufferFull(buf)
              THEN \E ok \in BOOLEAN :
                    IF ok
                    THEN /\ table' = [table EXCEPT !.rows = RLConcat(@, buf)]
                         /\ flushes' = Append(flushes, [n |-> RunsLen(buf), ok |-> TRUE])
                         /\ rows' = <<>>
                         /\ pc' = pc
                         /\ error' = error
                    ELSE /\ table' = table
                         /\ flushes' = Append(flushes, [n |-> RunsLen(buf), ok |-> FALSE])
                         /\ rows' = buf
                         /\ pc' = "raised"
                         /\ error' = "flush"
              ELSE /\ rows' = buf
                   /\ UNCHANGED <<table, flushes, pc, error>>
    /\ UNCHANGED <<configFile, csvs, SCHEMA_MAP, idx, started, fixed_types, table_def,
                   vvars, cvars, pvars>>

\* The reader is exhausted: flush what the buffer holds, if anything, and
\* return to main's loop
EndOfRows ==
    /\ pc = "rows"
    /\ readPos = NRows(csvs[idx])
    /\ IF rows # <<>>
       THEN \E ok \in BOOLEAN :
             IF ok
             THEN /\ table' = [table EXCEPT !.rows = RLConcat(@, rows)]
                  /\ flushes' = Append(flushes, [n |-> RunsLen(rows), ok |-> TRUE])
                  /\ pc' = "loop"
                  /\ error' = error
             ELSE /\ table' = table
                  /\ flushes' = Append(flushes, [n |-> RunsLen(rows), ok |-> FALSE])
                  /\ pc' = "raised"
                  /\ error' = "flush"
       ELSE /\ pc' = "loop"
            /\ UNCHANGED <<table, flushes, error>>
    /\ UNCHANGED <<configFile, csvs, SCHEMA_MAP, idx, started, fixed_types, table_def,
                   rows, readPos,
                   vvars, cvars, pvars>>

\* main's loop has no file left
Finish ==
    /\ pc = "loop"
    /\ idx = Len(csvs)
    /\ pc' = "done"
    /\ UNCHANGED <<configFile, csvs, SCHEMA_MAP, idx, started, fixed_types, table_def,
                   table, rows, readPos, flushes, error,
                   vvars, cvars, pvars>>

BuilderNext == LoadSchemaMap \/ StartFile \/ CreateTable \/ HandleRow \/ EndOfRows \/ Finish

(***************************************************************************)
(* validate_csv_schemas.py                                                 *)
(***************************************************************************)
InitValidator ==
    /\ vpc = "start"
    /\ v_schema_map = <<>>
    /\ v_idx = 0
    /\ v_results = <<>>
    /\ v_error = "none"

_is_int(s) == IntOfFloat(PyFloat(s)).ok

_is_float(s) == PyFloat(s).ok

_is_ts(s) == ParseTs(s, 1).ok

\* TYPE_CHECKERS.get(t, TYPE_CHECKERS["text"])(s): the keys are matched as
\* written in the schema
TypeCheck(t, s) ==
    IF t = <<"i", "n", "t">> THEN s = <<>> \/ s = None \/ _is_int(s)
    ELSE IF t = <<"d", "o", "u", "b", "l", "e">> THEN s = <<>> \/ s = None \/ _is_float(s)
    ELSE IF t = <<"t", "i", "m", "e", "s", "t", "a", "m", "p">> THEN s = <<>> \/ s = None \/ _is_ts(s)
    ELSE TRUE

\* row.get(col, ""): the cell, "" when the header has no such column
RowGetOrEmpty(headers, row, col) ==
    IF \E i \in 1..Len(headers) : headers[i] = col THEN RowGet(headers, row, col)
    ELSE <<>>

MissingErrors(file, schema) ==
    LET Absent(item) == \A i \in 1..Len(file.headers) : file.headers[i] # item.key
        missing_cols == SelectSeq(schema, Absent)
    IN  [i \in 1..Len(missing_cols) |->
            [line |-> 0, col |-> missing_cols[i].key, msg |-> <<"m", "i", "s", "s", "i", "n", "g", " ", "c", "o", "l", "u", "m", "n">>]]

\* The errors of data row k, which is line k + 1 of the file
RowErrors(file, schema, k) ==
    LET Bad(item) == ~TypeCheck(item.val, RowGetOrEmpty(file.headers, RowAt(file, k), item.key))
        bad == SelectSeq(schema, Bad)
    IN  [i \in 1..Len(bad) |->
            [line |-> k + 1, col |-> bad[i].key, msg |-> <<"e", "x", "p", "e", "c", "t", "e", "d", " ">> \o bad[i].val]]

RECURSIVE RowsErrors(_, _, _)
RowsErrors(file, schema, k) ==
    IF k > NRows(file) THEN <<>>
    ELSE RowErrors(file, schema, k) \o RowsErrors(file, schema, k + 1)

validate_csv(file, schema) == MissingErrors(file, schema) \o RowsErrors(file, schema, 1)

\* load_schema_map: {} when the file is absent; json.load's exception is not
\* caught, so it leaves main
VLoadSchemaMap ==
    /\ vpc = "start"
    /\ IF configFile.state = "unparsable"
       THEN /\ vpc' = "raised"
            /\ v_error' = "json"
            /\ v_schema_map' = v_schema_map
       ELSE /\ vpc' = "loop"
            /\ v_error' = v_error
            /\ v_schema_map' = IF configFile.state = "ok" THEN configFile.content ELSE <<>>
    /\ UNCHANGED <<v_idx, v_results, bvars, cvars, pvars>>

\* One iteration of main's loop: a file without a schema is skipped
VNextFile ==
    /\ vpc = "loop"
    /\ v_idx < Len(csvs)
    /\ v_idx' = v_idx + 1
    /\ LET schema == lookup_schema(csvs[v_idx + 1], v_schema_map)
       IN  IF ~schema.some \/ schema.map = <<>>
           THEN v_results' = v_results
           ELSE v_results' = Append(v_results,
                    [file |-> v_idx + 1, errs |-> validate_csv(csvs[v_idx + 1], schema.map)])
    /\ UNCHANGED <<vpc, v_schema_map, v_error, bvars, cvars, pvars>>

VFinish ==
    /\ vpc = "loop"
    /\ v_idx = Len(csvs)
    /\ vpc' = "done"
    /\ UNCHANGED <<v_schema_map, v_idx, v_results, v_error, bvars, cvars, pvars>>

(***************************************************************************)
(* Calls of the pure functions on drawn arguments                          *)
(***************************************************************************)
NoCall == [op |-> "none"]

NoRet == [done |-> FALSE]

InitNoCall == call = NoCall /\ ret = NoRet

\* The most rows that follow the leading run of a drawn column
MaxTail == 1

TdNames == {<<"t", "r", "i", "a", "l">>, <<"T", "r", "i", "a", "l">>, <<"s", "c", "o", "r", "e">>, <<"d", "a", "t", "e">>, <<"c", "o", "u", "n", "t">>, <<"i", "d">>}

TdCells == {<<>>, <<"1">>, <<"5", ".", "0">>, <<"a", "b", "c">>, <<"2", "0", "2", "4", "-", "0", "1", "-", "0", "1">>, <<"n", "a", "n">>}

\* Lengths of the leading run, around the slice and the sample size
LeadLens == {0, 1, SAMPLE_SLICE - 1, SAMPLE_SLICE, SAMPLE_ROWS - 1, SAMPLE_ROWS}

\* A one-column file: n1 rows with cell a, then n2 rows with cell b
ColumnFile(h, a, n1, b, n2) ==
    [dir |-> ResultsDir, name |-> <<"c", "o", "l", ".", "c", "s", "v">>, headers |-> <<h>>,
     runs |-> (IF n1 = 0 THEN <<>> ELSE <<[row |-> <<a>>, n |-> n1]>>)
              \o (IF n2 = 0 THEN <<>> ELSE <<[row |-> <<b>>, n |-> n2]>>)]

TdFiles ==
    {ColumnFile(h, a, n1, b, n2) :
        h \in TdNames, a \in TdCells, n1 \in LeadLens, b \in TdCells, n2 \in 0..MaxTail}

TypeNames == {<<"i", "n", "t">>, <<"I", "N", "T">>, <<"d", "o", "u", "b", "l", "e">>, <<"r", "e", "a", "l">>, <<"F", "l", "o", "a", "t">>, <<"t", "i", "m", "e", "s", "t", "a", "m", "p">>, <<"d", "a", "t", "e", "t", "i", "m", "e">>,
              <<"t", "e", "x", "t">>, <<"s", "t", "r", "i", "n", "g">>}

TdFixed ==
    {NoneMap, SomeMap(<<>>)}
    \cup {SomeMap(<<[key |-> k, val |-> t]>>) : k \in {<<"t", "r", "i", "a", "l">>, <<"c", "o", "u", "n", "t">>}, t \in TypeNames}

InitTableDef ==
    /\ call \in {[op |-> "build_table_def", file |-> f, fixed |-> x] :
                    f \in TdFiles, x \in TdFixed}
    /\ ret = NoRet

CallBuildTableDef ==
    /\ call.op = "build_table_def"
    /\ ~ret.done
    /\ ret' = [done |-> TRUE, val |-> build_table_def(call.file, call.fixed)]
    /\ UNCHANGED <<call, bvars, vvars, pvars>>

\* A schema map whose patterns overlap, so that the order of the patterns
\* decides
SchemaMapC ==
    << [key |-> <<".">>,
        val |-> << [key |-> <<"a", "?", ".", "c", "s", "v">>, val |-> << [key |-> <<"i", "d">>, val |-> <<"i", "n", "t">>] >>],
                   [key |-> <<"a", "*">>, val |-> << >>],
                   [key |-> <<"*">>, val |-> << [key |-> <<"i", "d">>, val |-> <<"t", "e", "x", "t">>] >>] >>],
       [key |-> <<"s", "e", "q", "u", "e", "n", "c", "e", "-", "a", "n", "a", "l", "y", "s", "i", "s", "/", "r", "e", "s", "u", "l", "t", "s">>,
        val |-> << [key |-> <<"[", "!", "s", "]", "*">>, val |-> << [key |-> <<"l", "a", "b", "e", "l">>, val |-> <<"i", "n", "t">>] >>],
                   [key |-> <<"s", "e", "q", "_", "[", "0", "-", "9", "]", ".", "c", "s", "v">>,
                    val |-> << [key |-> <<"c", "o", "u", "n", "t">>, val |-> <<"d", "o", "u", "b", "l", "e">>] >>] >>] >>

LkMaps == {<<>>, SchemaMapA, SchemaMapB, SchemaMapC}

LkDirs == {<<>>, ResultsDir, SequenceDir, <<<<"o", "t", "h", "e", "r">>>>, <<<<"s", "e", "q", "u", "e", "n", "c", "e", "-", "a", "n", "a", "l", "y", "s", "i", "s">>>>}

LkNames == {<<"e", "2", "e", ".", "c", "s", "v">>, <<"c", "e", "l", "l", "s", ".", "c", "s", "v">>, <<"a", "1", ".", "c", "s", "v">>, <<"a", "b", ".", "t", "x", "t">>, <<"s", "e", "q", "_", "1", ".", "c", "s", "v">>, <<"s", "e", "q", "_", "1", "2", ".", "c", "s", "v">>,
            <<"E", "2", "E", ".", "c", "s", "v">>, <<"b", ".", "c", "s", "v">>}

InitLookup ==
    /\ call \in {[op |-> f, path |-> [dir |-> d, name |-> n], schema_map |-> m] :
                    f \in {"lookup_fixed_types", "lookup_schema"},
                    d \in LkDirs, n \in LkNames, m \in LkMaps}
    /\ ret = NoRet

CallLookupFixedTypes ==
    /\ call.op = "lookup_fixed_types"
    /\ ~ret.done
    /\ ret' = [done |-> TRUE, val |-> lookup_fixed_types(call.path, SCHEMA_MAP)]
    /\ UNCHANGED <<call, bvars, vvars, pvars>>

CallLookupSchema ==
    /\ call.op = "lookup_schema"
    /\ ~ret.done
    /\ ret' = [done |-> TRUE, val |-> lookup_schema(call.path, call.schema_map)]
    /\ UNCHANGED <<call, bvars, vvars, pvars>>

\* One cell under one schema type name, given to the validator's checker
\* and to the builder's conversion
AgreeTypeNames == TypeNames \cup {<<"f", "l", "o", "a", "t">>, <<"T", "i", "m", "e", "s", "t", "a", "m", "p">>, <<"D", "A", "T", "E", "T", "I", "M", "E">>, <<"R", "e", "a", "l">>, <<"i", "n", "t", "e", "g", "e", "r">>, <<>>}

AgreeCells == {CellSeq[i] : i \in {i \in 1..Len(CellSeq) : CellSeq[i] # <<>>}}

InitCell ==
    /\ call \in {[op |-> "cell", t |-> t, v |-> v] : t \in AgreeTypeNames, v \in AgreeCells}
    /\ ret = NoRet

\* validate_csv on the cell: whether it appends an error
CallChecker ==
    /\ call.op = "cell"
    /\ ret = NoRet
    /\ ret' = [done |-> FALSE, error |-> ~TypeCheck(call.t, call.v)]
    /\ UNCHANGED <<call, bvars, vvars, pvars>>

\* insert_csv on the cell, the column type being str_to_sqltype(t)
CallConvert ==
    /\ call.op = "cell"
    /\ ret # NoRet
    /\ ~ret.done
    /\ ret' = [done |-> TRUE, error |-> ret.error,
               value |-> ConvertCell(str_to_sqltype(call.t), call.v)]
    /\ UNCHANGED <<call, bvars, vvars, pvars>>

(***************************************************************************)
(* The archive packager                                                    *)
(***************************************************************************)
\* No file at a path
NoFile == [exists |-> FALSE, entries |-> <<>>]

\* An archive a former run left at --out
OldArchive == [exists |-> TRUE, entries |-> <<<<"o", "l", "d", ".", "t", "d", "s">>, <<"D", "a", "t", "a", "/", "E", "x", "t", "r", "a", "c", "t", "s", "/", "o", "l", "d", ".", "h", "y", "p", "e", "r">>>>]

TdsNames == {<<"s", "t", "u", "d", "y", ".", "t", "d", "s">>, <<"g", "a", "z", "e", ".", "t", "d", "s">>, <<"a", ".", "t", "d", "s">>}

HyperNames == {<<"s", "t", "u", "d", "y", ".", "h", "y", "p", "e", "r">>, <<"e", "x", "t", "r", "a", "c", "t", ".", "h", "y", "p", "e", "r">>}

\* The file systems a run can start in: --out is a path of its own and
\* there is no file in a directory that does not exist
FileSystems ==
    {f \in [tds : BOOLEAN, hyper : BOOLEAN, outDir : BOOLEAN, out : {NoFile, OldArchive}] :
        f.out.exists => f.outDir}

\* The packager is not run
InitNoPackage ==
    /\ p_args = [tds |-> <<>>, hyper |-> <<>>]
    /\ fs = [tds |-> FALSE, hyper |-> FALSE, outDir |-> FALSE, out |-> NoFile]
    /\ ppc = "idle"
    /\ p_error = "none"

InitPackager ==
    /\ p_args \in [tds : TdsNames, hyper : HyperNames]
    /\ fs \in FileSystems
    /\ ppc = "check_tds"
    /\ p_error = "none"

\* Path.exists() of an input, negated
MissingInputNever(present) == FALSE

MissingInput(present) == ~present

\* The archive name of the extract
ExtractArcname(hyper_name) == <<"D", "a", "t", "a", "/", "E", "x", "t", "r", "a", "c", "t", "s", "/">> \o hyper_name

\* main: the descriptor must exist
CheckTds ==
    /\ ppc = "check_tds"
    /\ IF MissingInput(fs.tds)
       THEN ppc' = "raised" /\ p_error' = "Missing .tds"
       ELSE ppc' = "check_hyper" /\ UNCHANGED p_error
    /\ UNCHANGED <<p_args, fs, bvars, vvars, cvars>>

\* main: the extract must exist
CheckHyper ==
    /\ ppc = "check_hyper"
    /\ IF MissingInput(fs.hyper)
       THEN ppc' = "raised" /\ p_error' = "Missing .hyper"
       ELSE ppc' = "mkdir" /\ UNCHANGED p_error
    /\ UNCHANGED <<p_args, fs, bvars, vvars, cvars>>

\* package_tdsx: the directory of --out is created if absent
MkdirOut ==
    /\ ppc = "mkdir"
    /\ fs' = [fs EXCEPT !.outDir = TRUE]
    /\ ppc' = "open"
    /\ UNCHANGED <<p_args, p_error, bvars, vvars, cvars>>

\* package_tdsx: ZipFile(out, 'w') creates the file or truncates it
OpenZip ==
    /\ ppc = "open"
    /\ fs' = [fs EXCEPT !.out = [exists |-> TRUE, entries |-> <<>>]]
    /\ ppc' = "write_tds"
    /\ UNCHANGED <<p_args, p_error, bvars, vvars, cvars>>

\* package_tdsx: z.write of the descriptor under its own name; z.write of a
\* file that does not exist raises and the with statement closes the archive
WriteTds ==
    /\ ppc = "write_tds"
    /\ IF fs.tds
       THEN /\ fs' = [fs EXCEPT !.out.entries = Append(@, p_args.tds)]
            /\ ppc' = "write_hyper"
            /\ UNCHANGED p_error
       ELSE /\ ppc' = "raised"
            /\ p_error' = "z.write"
            /\ UNCHANGED fs
    /\ UNCHANGED <<p_args, bvars, vvars, cvars>>

\* package_tdsx: z.write of the extract under Data/Extracts, then the with
\* statement closes the archive
WriteHyper ==
    /\ ppc = "write_hyper"
    /\ IF fs.hyper
       THEN /\ fs' = [fs EXCEPT !.out.entries = Append(@, ExtractArcname(p_args.hyper))]
            /\ ppc' = "created"
            /\ UNCHANGED p_error
       ELSE /\ ppc' = "raised"
            /\ p_error' = "z.write"
            /\ UNCHANGED fs
    /\ UNCHANGED <<p_args, bvars, vvars, cvars>>

\* package_tdsx: print and return
Created ==
    /\ ppc = "created"
    /\ ppc' = "done"
    /\ UNCHANGED <<p_args, fs, p_error, bvars, vvars, cvars>>

PackagerNext == CheckTds \/ CheckHyper \/ MkdirOut \/ OpenZip \/ WriteTds \/ WriteHyper \/ Created

(***************************************************************************)
(* Specifications                                                          *)
(***************************************************************************)
\* The extract builder over the files a run discovers
Init ==
    /\ configFile \in ConfigFiles
    /\ csvs \in RunLists
    /\ InitBuilder
    /\ InitValidator
    /\ InitNoPackage
    /\ InitNoCall

Next == BuilderNext

Spec == Init /\ [][Next]_vars

\* The extract builder over one file of many rows
InitBatch ==
    /\ configFile \in ConfigFiles
    /\ csvs \in {<<BigFile(n)>> : n \in BigSizes}
    /\ InitBuilder
    /\ InitValidator
    /\ InitNoPackage
    /\ InitNoCall

SpecBatch == InitBatch /\ [][Next]_vars

\* The validator over the files a run discovers
ValidatorNext == VLoadSchemaMap \/ VNextFile \/ VFinish

SpecValidator == Init /\ [][ValidatorNext]_vars

\* build_table_def on drawn files and overrides
InitPure ==
    /\ configFile = [state |-> "missing", content |-> <<>>]
    /\ csvs = <<>>
    /\ InitBuilder
    /\ InitValidator
    /\ InitNoPackage

TableDefNext == CallBuildTableDef

InitTableDefSpec == InitPure /\ InitTableDef

SpecTableDef == InitTableDefSpec /\ [][TableDefNext]_vars

\* The two lookups on drawn paths and schema maps; the builder's lookup reads
\* the global, which holds the drawn map
InitLookupSpec ==
    /\ configFile = [state |-> "missing", content |-> <<>>]
    /\ csvs = <<>>
    /\ InitLookup
    /\ pc = "loop"
    /\ SCHEMA_MAP = call.schema_map
    /\ idx = 0
    /\ started = <<>>
    /\ fixed_types = NoneMap
    /\ table_def = <<>>
    /\ table = NoTable
    /\ rows = <<>>
    /\ readPos = 0
    /\ flushes = <<>>
    /\ error = "none"
    /\ InitValidator
    /\ InitNoPackage

LookupNext == CallLookupFixedTypes \/ CallLookupSchema

SpecLookup == InitLookupSpec /\ [][LookupNext]_vars

\* The archive packager on drawn inputs and file systems
InitPackageSpec ==
    /\ configFile = [state |-> "missing", content |-> <<>>]
    /\ csvs = <<>>
    /\ InitBuilder
    /\ InitValidator
    /\ InitNoCall
    /\ InitPackager

SpecPackage == InitPackageSpec /\ [][PackagerNext]_vars

\* The validator's checker and the builder's conversion on drawn type names
\* and cells
InitCellSpec == InitPure /\ InitCell

CellNext == CallChecker \/ CallConvert

SpecCell == InitCellSpec /\ [][CellNext]_vars

(***************************************************************************)
(* Properties                                                              *)
(***************************************************************************)
\* insert_csv has returned normally for the file csvs[idx]
InsertDone == pc \in {"loop", "done"} /\ idx >= 1

\* The sizes of the flushes that executed, in order
FlushSizes == [i \in 1..Len(flushes) |-> flushes[i].n]

\* C1: a file of N data rows is flushed in exactly ceil(N/5000) batches: all
\* but the last hold 5000 rows, the last holds the remaining N - 5000*(k-1)
\* rows, and no flush, executed or failed, is ever empty
C1_FlushCount ==
    /\ \A i \in 1..Len(flushes) : flushes[i].n > 0
    /\ InsertDone =>
        LET N == NRows(csvs[idx])
            k == (N + 4999) \div 5000
        IN  /\ Len(flushes) = k
            /\ \A i \in 1..Len(flushes) : flushes[i].ok
            /\ \A i \in 1..(k - 1) : flushes[i].n = 5000
            /\ k > 0 => flushes[k].n = N - 5000 * (k - 1)

\* 12000 rows went out as 5000, 5000, 2000
C1_Witness ==
    /\ InsertDone
    /\ NRows(csvs[idx]) = 12000
    /\ FlushSizes = <<5000, 5000, 2000>>

\* The run of the extract builder has ended
RunEnded == pc \in {"done", "raised"}

\* C2: when the run ends, whether or not table creation or a flush failed
\* for some file, convert_csv_to_hyper has been called for every discovered
\* file, and no flush was executed again after it failed
C2_LaterFilesAttempted ==
    /\ RunEnded => started = [i \in 1..Len(csvs) |-> i]
    /\ \A i \in 1..Len(flushes) : ~flushes[i].ok => i = Len(flushes)

\* The Python type of a value of a column type
PyTypeOf(ty) ==
    CASE ty = "int" -> "int"
      [] ty = "double" -> "float"
      [] ty = "timestamp" -> "datetime"
      [] OTHER -> "str"

\* The cell parses as a value of the column type
Parseable(ty, c) ==
    CASE ty = "int" -> PyFloat(c).ok /\ PyFloat(c).kind = "fin"
      [] ty = "double" -> PyFloat(c).ok
      [] ty = "timestamp" -> \E i \in 1..Len(TS_FORMATS) : Strptime(c, TS_FORMATS[i]).ok
      [] OTHER -> TRUE

\* The converted rows insert_csv has produced so far: flushed, then buffered
Produced == IF InsertDone THEN table.rows ELSE RLConcat(table.rows, rows)

\* C3: conversion never raises and never drops a row.  Every converted row
\* has one cell per column; a cell is null or a value of the column's type;
\* an empty or absent raw cell and an unparseable one give null, a parseable
\* one does not; a Text cell is the raw string; and as many rows are
\* produced as were read, all of the file's rows once insert_csv returns
C3_ConversionTotal ==
    pc \in {"rows", "loop", "done"} /\ idx >= 1 =>
        LET file == csvs[idx]
        IN  /\ RunsLen(Produced) = readPos
            /\ InsertDone => readPos = NRows(file)
            /\ \A i \in 1..readPos :
                LET out == RunsAt(Produced, i)
                IN  /\ Len(out) = Len(table_def)
                    /\ \A j \in 1..Len(table_def) :
                        LET c == RowGet(file.headers, RowAt(file, i), table_def[j].name)
                            ty == table_def[j].type
                        IN  /\ out[j].t \in {"null", PyTypeOf(ty)}
                            /\ out[j] = Null <=> (c = None \/ c = <<>> \/ ~Parseable(ty, c))
                            /\ ty = "text" /\ out[j] # Null => out[j].s = c

\* cells.csv converted under its hinted types: "5.0" is integer 5 and float
\* 5.0, "-3.7" truncates to -3, "nan" is null as an integer and a float as a
\* double, the malformed date is null, the short row is padded with nulls
C3_Witness ==
    /\ InsertDone
    /\ csvs[idx] = CellsFile
    /\ ~fixed_types.some
    /\ RunsLen(table.rows) = Len(CellSeq) + 1
    /\ RunsAt(table.rows, 2)[1] = IntV(5)
    /\ RunsAt(table.rows, 2)[2].t = "float"
    /\ RunsAt(table.rows, 4)[1] = IntV(0 - 3)
    /\ RunsAt(table.rows, 7)[1] = Null
    /\ RunsAt(table.rows, 7)[2].kind = "nan"
    /\ RunsAt(table.rows, 14)[3] = Null
    /\ RunsAt(table.rows, 13)[3].t = "datetime"
    /\ RunsAt(table.rows, 1)[4] = TextV(<<"x">>)
    /\ RunsAt(table.rows, Len(CellSeq) + 1) = <<IntV(4), Null, Null, Null>>

\* The types of the table definition, in column order
TypesOf(td) == [j \in 1..Len(td) |-> td[j].type]

\* The end-to-end file was converted without a fixed override
E2EDone == InsertDone /\ csvs[idx] = E2EFile /\ ~fixed_types.some

Jan1st2024 == [t |-> "datetime", Y |-> 2024, mo |-> 1, d |-> 1, H |-> 0, M |-> 0, S |-> 0]

Half == [t |-> "float", kind |-> "fin", neg |-> FALSE, m |-> 5, e |-> 0 - 1]

\* C4 as stated: id is Integer, and the rows are (1, 0.5, 2024-01-01) and
\* (null, null, null)
C4_AsStated ==
    E2EDone =>
        /\ TypesOf(table_def) = <<"int", "double", "timestamp">>
        /\ table.rows = <<[row |-> <<IntV(1), Half, Jan1st2024>>, n |-> 1],
                          [row |-> <<Null, Null, Null>>, n |-> 1]>>

\* C4, amended: the samples "1" and "x" of id are not all numeric and hold no
\* timestamp, so id is Text; score is Double by its hint and seen_at is
\* Timestamp by its first sample; the rows are ("1", 0.5, 2024-01-01) and
\* ("x", null, null)
C4_EndToEnd ==
    E2EDone =>
        /\ TypesOf(table_def) = <<"text", "double", "timestamp">>
        /\ table.rows = <<[row |-> <<TextV(<<"1">>), Half, Jan1st2024>>, n |-> 1],
                          [row |-> <<TextV(<<"x">>), Null, Null>>, n |-> 1]>>

C4_Witness == E2EDone /\ RunsLen(table.rows) = 2 /\ RunsAt(table.rows, 1)[1].t = "str"

\* build_table_def has returned; the drawn file has one column
TdDone == call.op = "build_table_def" /\ ret.done

TdColumn == call.file.headers[1]

TdType == ret.val[1].type

TdOverridden == call.fixed.some /\ HasKey(call.fixed.map, TdColumn)

TdHinted == Lower(TdColumn) \in INT_FIELDS \cup FLOAT_FIELDS \cup DATE_FIELDS

\* The non-empty cells among those sampled from the first 50 data rows
TdNonEmpty == SelectSeq(Samples(call.file, TdColumn), Truthy)

\* The waterfall of section 4.2 over every non-empty sampled value
DecideOverAll(non_empty) ==
    IF non_empty # <<>> /\ \A i \in 1..Len(non_empty) : PyInt(non_empty[i]).ok THEN "int"
    ELSE IF non_empty # <<>> /\ \A i \in 1..Len(non_empty) : PyFloat(non_empty[i]).ok
         THEN "double"
    ELSE IF \E i \in 1..Len(non_empty), k \in 1..Len(TS_FORMATS) :
                Strptime(non_empty[i], TS_FORMATS[k]).ok
         THEN "timestamp"
    ELSE "text"

\* C5: for a column without hint and override, the inferred type is decided
\* by all the non-empty values sampled from the first 50 data rows: Integer
\* iff there is one and all parse as integers, else Double iff all parse as
\* floats, else Timestamp iff one is a timestamp, else Text
C5_AllSamplesDecide ==
    TdDone /\ ~TdOverridden /\ ~TdHinted => TdType = DecideOverAll(TdNonEmpty)

\* An integer literal followed by ".0"
IntDotZero(v) ==
    /\ Len(v) >= 3
    /\ SubSeq(v, Len(v) - 1, Len(v)) = <<".", "0">>
    /\ DigitGroup(Unsigned(SubSeq(v, 1, Len(v) - 2)))

\* C6: a column without hint and override whose non-empty sampled values are
\* each an integer literal or an integer literal followed by ".0" is
\* inferred Integer
C6_TrailingZeroIsInteger ==
    /\ TdDone /\ ~TdOverridden /\ ~TdHinted
    /\ TdNonEmpty # <<>>
    /\ \A i \in 1..Len(TdNonEmpty) : PyInt(TdNonEmpty[i]).ok \/ IntDotZero(TdNonEmpty[i])
    => TdType = "int"

\* C7: a column without override whose lower-cased name is in a hint set gets
\* the type of that set whatever the samples are, and the hint sets are
\* pairwise disjoint
C7_HintsDominate ==
    /\ INT_FIELDS \cap FLOAT_FIELDS = {}
    /\ INT_FIELDS \cap DATE_FIELDS = {}
    /\ FLOAT_FIELDS \cap DATE_FIELDS = {}
    /\ TdDone /\ ~TdOverridden =>
        /\ Lower(TdColumn) \in INT_FIELDS => TdType = "int"
        /\ Lower(TdColumn) \in FLOAT_FIELDS => TdType = "double"
        /\ Lower(TdColumn) \in DATE_FIELDS => TdType = "timestamp"

\* Column Trial, whose samples are all timestamps, is Integer by its hint
C7_Witness ==
    /\ TdDone /\ ~TdOverridden
    /\ TdColumn = <<"T", "r", "i", "a", "l">>
    /\ Len(TdNonEmpty) = SAMPLE_ROWS
    /\ \A i \in 1..Len(TdNonEmpty) : TdNonEmpty[i] = <<"2", "0", "2", "4", "-", "0", "1", "-", "0", "1">>
    /\ TdType = "int"

\* The column type a schema type name stands for
NamedType ==
    {<<<<"i", "n", "t">>, "int">>, <<<<"I", "N", "T">>, "int">>, <<<<"d", "o", "u", "b", "l", "e">>, "double">>, <<<<"r", "e", "a", "l">>, "double">>,
     <<<<"F", "l", "o", "a", "t">>, "double">>, <<<<"t", "i", "m", "e", "s", "t", "a", "m", "p">>, "timestamp">>, <<<<"d", "a", "t", "e", "t", "i", "m", "e">>, "timestamp">>,
     <<<<"t", "e", "x", "t">>, "text">>, <<<<"s", "t", "r", "i", "n", "g">>, "text">>}

\* C8: a header column that is a key of the fixed mapping gets the type the
\* mapping names, whatever its name hints and its samples suggest; any other
\* column gets the type infer_type gives it
C8_OverrideWins ==
    TdDone =>
        IF TdOverridden
        THEN <<DictGet(call.fixed.map, TdColumn), TdType>> \in NamedType
        ELSE TdType = infer_type(TdColumn, Samples(call.file, TdColumn))

\* Column trial, hinted Integer and sampled as integers, is Timestamp by its
\* override
C8_Witness ==
    /\ TdDone /\ TdOverridden
    /\ TdColumn = <<"t", "r", "i", "a", "l">>
    /\ DictGet(call.fixed.map, TdColumn) = <<"d", "a", "t", "e", "t", "i", "m", "e">>
    /\ TdNonEmpty # <<>>
    /\ \A i \in 1..Len(TdNonEmpty) : TdNonEmpty[i] = <<"1">>
    /\ TdType = "timestamp"

\* A lookup has returned
LkDone == call.op \in {"lookup_fixed_types", "lookup_schema"} /\ ret.done

\* The patterns of the schema map that match the file name, by position
LkMatching ==
    IF HasKey(call.schema_map, RelDir(call.path.dir))
    THEN LET pats == DictGet(call.schema_map, RelDir(call.path.dir))
         IN  {i \in 1..Len(pats) : fnmatch(call.path.name, pats[i].key)}
    ELSE {}

\* C9: either lookup returns the mapping of the first pattern, in the stored
\* order of the file's relative directory, that matches the file name, and
\* no override when the directory is no key or no pattern matches; the
\* builder's schema map is what it was before the call
C9_FirstMatchWins ==
    LkDone =>
        /\ SCHEMA_MAP = call.schema_map
        /\ IF LkMatching = {} THEN ret.val = NoneMap
           ELSE LET pats == DictGet(call.schema_map, RelDir(call.path.dir))
                    first == CHOOSE i \in LkMatching : \A j \in LkMatching : i <= j
                IN  ret.val = SomeMap(pats[first].val)

\* Two patterns match the name, with different mappings, and the lookup
\* returned the mapping of the first
C9_Witness ==
    /\ LkDone
    /\ Cardinality(LkMatching) >= 2
    /\ LET pats == DictGet(call.schema_map, RelDir(call.path.dir))
       IN  /\ \E i, j \in LkMatching : pats[i].val # pats[j].val
           /\ ret.val = SomeMap(pats[CHOOSE i \in LkMatching : \A j \in LkMatching : i <= j].val)

\* C10: with the schema configuration file missing or unparsable, loading
\* does not raise, the validator's schema map is empty, and its run handles
\* every discovered file
C10_ValidatorLoadDegrades ==
    configFile.state \in {"missing", "unparsable"} =>
        /\ vpc # "raised"
        /\ v_schema_map = <<>>
        /\ vpc = "done" => v_idx = Len(csvs)

\* The same for the extract builder, whose load_schema_map catches the error
BuilderLoadDegrades ==
    configFile.state \in {"missing", "unparsable"} /\ pc # "start" =>
        SCHEMA_MAP = <<>> /\ error # "json"

\* The column type a schema type name declares (section 6): int;
\* double, real, float; timestamp, datetime; anything else is text
DeclaredType(t) ==
    IF t = <<"i", "n", "t">> THEN "int"
    ELSE IF t \in {<<"d", "o", "u", "b", "l", "e">>, <<"r", "e", "a", "l">>, <<"f", "l", "o", "a", "t">>} THEN "double"
    ELSE IF t \in {<<"t", "i", "m", "e", "s", "t", "a", "m", "p">>, <<"d", "a", "t", "e", "t", "i", "m", "e">>} THEN "timestamp"
    ELSE "text"

\* The schema the validator resolved for the file of its r-th result
ResultSchema(r) == lookup_schema(csvs[v_results[r].file], v_schema_map).map

InHeader(file, col) == \E i \in 1..Len(file.headers) : file.headers[i] = col

\* The (line, column) pairs the claim asks errors for: line 0 for a schema
\* column the header lacks, line k + 1 for a non-empty cell of data row k
\* that does not parse as the declared type of its schema column
ExpectedErrors(file, schema) ==
    {<<0, schema[s].key>> : s \in {s \in 1..Len(schema) : ~InHeader(file, schema[s].key)}}
    \cup
    {<<p[1] + 1, schema[p[2]].key>> :
        p \in {p \in (1..NRows(file)) \X (1..Len(schema)) :
                 /\ InHeader(file, schema[p[2]].key)
                 /\ Truthy(RowGet(file.headers, RowAt(file, p[1]), schema[p[2]].key))
                 /\ ~Parseable(DeclaredType(schema[p[2]].val),
                               RowGet(file.headers, RowAt(file, p[1]), schema[p[2]].key))}}

\* The errors are exactly one per expected pair, the missing columns under
\* their message, in ascending line order
ErrorsAre(errs, expected) ==
    /\ {<<errs[i].line, errs[i].col>> : i \in 1..Len(errs)} = expected
    /\ Len(errs) = Cardinality(expected)
    /\ \A i \in 1..Len(errs) : errs[i].line = 0 <=> errs[i].msg = <<"m", "i", "s", "s", "i", "n", "g", " ", "c", "o", "l", "u", "m", "n">>
    /\ \A i \in 1..Len(errs) : errs[i].line = 0 \/ errs[i].line >= 2
    /\ \A i, j \in 1..Len(errs) : i < j => errs[i].line <= errs[j].line

\* C11: validate_csv returns exactly one line-0 "missing column" error per
\* schema column absent from the header, followed by one error with line
\* k + 1 per non-empty cell of data row k that does not parse as the declared
\* type of its schema column, in ascending line order; empty cells and cells
\* of absent columns give no row-level error; the files are not modified
C11_ValidationErrors ==
    \A r \in 1..Len(v_results) :
        ErrorsAre(v_results[r].errs, ExpectedErrors(csvs[v_results[r].file], ResultSchema(r)))

\* The type names that are keys of the validator's table of checkers
CheckerKeys == {<<"i", "n", "t">>, <<"d", "o", "u", "b", "l", "e">>, <<"t", "i", "m", "e", "s", "t", "a", "m", "p">>, <<"t", "e", "x", "t">>}

\* The same statement for the schemas that use only the type names the
\* validator has a checker for, or names no reader of the schema recognises
ValidationErrorsOwnNames ==
    \A r \in 1..Len(v_results) :
        (\A s \in 1..Len(ResultSchema(r)) :
            ResultSchema(r)[s].val \in CheckerKeys
            \/ DeclaredType(ResultSchema(r)[s].val) = "text")
        => ErrorsAre(v_results[r].errs,
                     ExpectedErrors(csvs[v_results[r].file], ResultSchema(r)))

\* The packager has ended, by returning or by an exception
PackagerEnded == ppc \in {"done", "raised"}

InputMissing == ~fs.tds \/ ~fs.hyper

\* The two entries of a complete archive
CompleteArchive ==
    [exists |-> TRUE, entries |-> <<p_args.tds, <<"D", "a", "t", "a", "/", "E", "x", "t", "r", "a", "c", "t", "s", "/">> \o p_args.hyper>>]

\* C12: the packager never leaves a partial archive: when the descriptor or
\* the extract is missing it fails, and no step of it creates or modifies
\* the output archive or the output directory; when both exist it ends with
\* an archive of exactly two entries, the descriptor under its own file name
\* and the extract under Data/Extracts/ and its file name
C12_NoPartialArchive ==
    /\ [][ppc # "idle" /\ InputMissing => fs' = fs]_vars
    /\ [](PackagerEnded /\ InputMissing => ppc = "raised")
    /\ [](PackagerEnded /\ ~InputMissing => ppc = "done" /\ fs.outDir /\ fs.out = CompleteArchive)

\* The packager failed on a missing extract next to an archive of a former
\* run and a descriptor that exists
C12_WitnessMissing ==
    /\ ppc = "raised"
    /\ fs.tds /\ ~fs.hyper
    /\ fs.out = OldArchive

\* The packager returned and left an archive of the descriptor and the extract
C12_Witness ==
    /\ ppc = "done"
    /\ Len(fs.out.entries) = 2
    /\ fs.out.entries[1] = <<"s", "t", "u", "d", "y", ".", "t", "d", "s">>
    /\ fs.out.entries[2] = <<"D", "a", "t", "a", "/", "E", "x", "t", "r", "a", "c", "t", "s", "/", "e", "x", "t", "r", "a", "c", "t", ".", "h", "y", "p", "e", "r">>

\* The first k rows of a list of rows
RECURSIVE RLTake(_, _)
RLTake(runs, k) ==
    IF k = 0 \/ runs = <<>> THEN <<>>
    ELSE IF runs[1].n >= k THEN <<[row |-> runs[1].row, n |-> k]>>
    ELSE <<runs[1]>> \o RLTake(Tail(runs), k - runs[1].n)

\* The rows of a list, each converted under the table definition
RECURSIVE ConvertRuns(_, _, _)
ConvertRuns(td, headers, runs) ==
    IF runs = <<>> THEN <<>>
    ELSE RLConcat(<<[row |-> ConvertRow(td, headers, runs[1].row), n |-> runs[1].n]>>,
                  ConvertRuns(td, headers, Tail(runs)))

\* The first k data rows of the current file, converted, in file order
ConvertedRows(k) ==
    ConvertRuns(table_def, csvs[idx].headers, RLTake(csvs[idx].runs, k))

\* The number of rows the flushes that succeeded have sent
RECURSIVE SentBy(_)
SentBy(fl) ==
    IF fl = <<>> THEN 0
    ELSE (IF fl[1].ok THEN fl[1].n ELSE 0) + SentBy(Tail(fl))

\* The table definition has one column per header name, in header order
ColumnsInHeaderOrder ==
    /\ Len(table_def) = Len(csvs[idx].headers)
    /\ \A j \in 1..Len(table_def) : table_def[j].name = csvs[idx].headers[j]

\* While insert_csv reads: flushed rows followed by buffered rows are the
\* converted rows read so far, in file order; the buffer holds fewer than
\* BATCH_SIZE rows; the flushed rows are the rows the flushes sent, once each
ConservedWhileReading ==
    pc = "rows" =>
        /\ RLConcat(table.rows, rows) = ConvertedRows(readPos)
        /\ RunsLen(rows) < BATCH_SIZE
        /\ RunsLen(table.rows) = SentBy(flushes)
        /\ SentBy(flushes) + RunsLen(rows) = readPos

\* Once insert_csv has returned: the table holds exactly the converted data
\* rows in file order, each sent once, one value per column in header order
ConservedOnReturn ==
    InsertDone =>
        /\ readPos = NRows(csvs[idx])
        /\ table.rows = ConvertedRows(NRows(csvs[idx]))
        /\ RunsLen(table.rows) = SentBy(flushes)
        /\ ColumnsInHeaderOrder
        /\ \A r \in 1..Len(table.rows) : Len(table.rows[r].row) = Len(table_def)

C14_ValidatorAgreesWithBuilder ==
    ret.done /\ call.op = "cell" => (ret.error <=> ret.value = Null)

\* The agreement for the type names the validator has a checker for and
\* the names str_to_sqltype takes for text
AgreeOnCheckerKeys ==
    ret.done /\ call.op = "cell"
    /\ (call.t \in CheckerKeys \/ str_to_sqltype(call.t) = "text")
    => (ret.error <=> ret.value = Null)

\* The cell bad under the type name real: no error, converted to null
DisagreeOnReal ==
    /\ ret.done /\ call.op = "cell"
    /\ call.t = <<"r", "e", "a", "l">> /\ call.v = <<"b", "a", "d">>
    /\ ~ret.error
    /\ ret.value = Null

====
